---- MODULE Spec2Model ----
(***************************************************************************)
(* AI generation orchestration of the study-aid backend: the AIManager     *)
(* (key rotation and model cache) of routes/flashcards.js and              *)
(* routes/quizzes.js, and the retry / rotation loop of the two generation  *)
(* handlers POST /generate-flashcards and POST /generate-quiz.             *)
(*                                                                         *)
(* A handler is an async function: it runs without interruption between    *)
(* two awaits.  Every action below is one such run-to-completion segment.  *)
(***************************************************************************)
EXTENDS Integers, FiniteSets, Sequences, TLC

VARIABLES
    clients,      \* the clients that send generation requests
    numKeys,      \* GEMINI_API_KEYS.length
    resolves,     \* key index -> what the model resolver yields for that key
    aiManager,    \* route module -> its module-level AIManager instance
    pc,           \* request -> the await it is suspended at
    route,        \* client -> the route module its requests go to
    model,        \* request -> local `model` (starts as `currentModel`)
    attempts,     \* request -> local `attempts`
    delay,        \* request -> seconds of the sleep in progress
    rawResponse,  \* request -> local `rawResponse`
    response,     \* request -> the HTTP response sent
    persisted,    \* request -> a document was saved for it
    allQuota,     \* request -> every external call so far returned HTTP 429
    callsOn,      \* request -> key index -> external calls made on that key
                  \*   while allQuota holds (forgotten once it is broken)
    trace,        \* request -> its first MaxTrace calls, outcomes, rotations, sleeps
    slept,        \* request -> seconds of its previous sleep on the handle in use
                  \* (the last four are history variables, kept for a request
                  \*  of a client that has the server to itself)
    aborted,      \* request -> the await it was suspended at when its caller went
                  \*   away (socket closed, timed out), "no" while the caller is there
    flashcardSet, \* the stored FlashcardSet document
    quizDocs,     \* ids of the stored Quiz documents
    quizResults,  \* quiz id -> user id -> number of stored QuizResult documents
                  \*   of that user naming that quiz
    op            \* request -> the study / quiz-result / delete request in progress

vars == << clients, numKeys, resolves, aiManager, pc, route, model, attempts, delay,
           rawResponse, response, persisted, allQuota, callsOn, trace, slept,
           aborted, flashcardSet, quizDocs, quizResults, op >>

\* the state of the generation handlers, and the stored documents
genVars == << clients, numKeys, resolves, aiManager, pc, route, model, attempts, delay,
              rawResponse, response, persisted, allQuota, callsOn, trace, slept >>
dataVars == << flashcardSet, quizDocs, quizResults, op >>

(***************************************************************************)
(* Bounds of the model.                                                    *)
(***************************************************************************)
MaxKeys == 2        \* largest key pool explored
MaxCount == 6       \* the per-key call counters saturate here
MaxTrace == 6       \* events of a request that its trace records

(***************************************************************************)
(* Program constants.                                                      *)
(***************************************************************************)
maxAttempts == 5

Reqs == {"r1", "r2"}
Routes == {"flashcards", "quizzes"}
Keys == 0 .. (numKeys - 1)

Min(a, b) == IF a < b THEN a ELSE b

\* a backoff that does not grow
ConstantBackoff(n) == 2

RECURSIVE Pow2(_)
Pow2(n) == IF n = 0 THEN 1 ELSE 2 * Pow2(n - 1)

(***************************************************************************)
(* Model handles.  `null` is the value cached when no model resolves.      *)
(***************************************************************************)
PRIMARY_MODEL == "gemini-1.5-flash"
FALLBACK_MODEL == "gemini-pro"

Null == [key |-> -1, name |-> "null"]
Handle(k, n) == [key |-> k, name |-> n]

(***************************************************************************)
(* Errors thrown by generateContent: an HTTP status (0: none) and the      *)
(* keyword the message contains.                                           *)
(***************************************************************************)
Errors == { [status |-> 429, msg |-> "other"],
            [status |-> 0,   msg |-> "quota"],
            [status |-> 0,   msg |-> "RATE_LIMIT"],
            [status |-> 500, msg |-> "other"],
            [status |-> 503, msg |-> "other"],
            [status |-> 0,   msg |-> "timeout"],
            [status |-> 400, msg |-> "other"] }

\* a rate-limit test that also takes "service unavailable" for one
IsRateLimitOr503(err) ==
    \/ err.status \in {429, 503}
    \/ err.msg \in {"quota", "RATE_LIMIT", "429"}

\* rotateIfNeeded: error.status === 429 || /quota/i || /RATE_LIMIT/i || /429/i
IsRateLimit(err) ==
    \/ err.status = 429
    \/ err.msg = "quota"
    \/ err.msg = "RATE_LIMIT"
    \/ err.msg = "429"

\* a transient test that leaves quota errors out
IsTransientNoQuota(err) ==
    \/ err.status \in {500, 503}
    \/ err.msg = "timeout"

\* a transient test that takes every HTTP error for transient
IsTransientAnyStatus(err) ==
    \/ err.status # 0
    \/ err.msg \in {"quota", "timeout"}

\* [429, 500, 503].includes(err.status) || /quota|timeout/i.test(err.message)
IsTransient(err) ==
    \/ err.status \in {429, 500, 503}
    \/ err.msg \in {"quota", "timeout"}

(***************************************************************************)
(* JSON values as the validation blocks look at them.  A scalar field is   *)
(* a non-empty string "Q", the empty string, a blank string, a number      *)
(* "#7", or missing ("undefined").                                         *)
(***************************************************************************)
MaxItems == 2       \* longest array the model answers with

Strings == {"Q", "", " "}

\* typeof v === "string"
IsString(v) == v \in Strings

\* v.trim()
Trim(v) == IF v = " " THEN "" ELSE v

\* a number that is an integer, and a value Number.isInteger rejects
Integer(n) == [int |-> TRUE, n |-> n]
NotInteger == [int |-> FALSE, n |-> 0]

\* Array.isArray(a) with a.length = Len(a.items), and any other value
Array(items) == [array |-> TRUE, items |-> items]
NotArray == [array |-> FALSE, items |-> << >>]

Element(q, a, o, c) == [question |-> q, answer |-> a, options |-> o, correctAnswer |-> c]

FourOptions == Array(<< "Q", "Q", "Q", "Q" >>)

\* an element that has every field of a flashcard and of a quiz question
GoodElement == Element("Q", "Q", FourOptions, Integer(3))

\* the elements the external model answers with
Elements ==
    { GoodElement,
      Element("Q", "undefined", FourOptions, Integer(0)),            \* no answer
      Element("", "Q", FourOptions, Integer(0)),                     \* empty question
      Element("undefined", "Q", FourOptions, Integer(0)),            \* no question
      Element("Q", "Q", Array(<< "Q", "Q", "Q" >>), Integer(0)),     \* 3 options
      Element("Q", "Q", Array(<< "Q", "", "Q", "Q" >>), Integer(0)), \* empty option
      Element("Q", "Q", Array(<< "Q", "Q", "#7", "Q" >>), Integer(0)), \* option not text
      Element("Q", "Q", NotArray, NotInteger),                       \* a flashcard
      Element("Q", "Q", FourOptions, Integer(4)),                    \* correctAnswer 4
      Element("Q", "Q", FourOptions, NotInteger) }                   \* correctAnswer 1.5

RECURSIVE SeqsUpTo(_, _)
SeqsUpTo(S, n) ==
    IF n = 0 THEN { << >> }
    ELSE LET shorter == SeqsUpTo(S, n - 1)
         IN  shorter \cup { Append(q, x) : q \in shorter, x \in S }

\* the JSON values the external model answers with
Payloads == { NotArray } \cup { Array(q) : q \in SeqsUpTo(Elements, MaxItems) }

(***************************************************************************)
(* Texts returned by a successful generateContent call: a sequence of      *)
(* tokens, each a code fence ```, a language tag, white space, a JSON      *)
(* value, or plain words.                                                  *)
(***************************************************************************)
Tok(kind, s, v) == [tok |-> kind, s |-> s, v |-> v, n |-> 0]
Fence == Tok("fence", "", NotArray)
Lang(s) == Tok("lang", s, NotArray)
Ws == Tok("ws", "\n", NotArray)
Json(v) == Tok("json", "", v)
Words(s) == Tok("words", s, NotArray)
Number(i) == [Tok("number", "", NotArray) EXCEPT !.n = i]

\* `let rawResponse;` before any call has succeeded
NoText == << Tok("undefined", "", NotArray) >>
EmptyText == << >>

\* the i flag of a regular expression
Lower(s) == IF s = "JSON" THEN "json" ELSE s

RECURSIVE TrimStart(_)
TrimStart(t) ==
    IF t # << >> /\ Head(t).tok = "ws" THEN TrimStart(Tail(t)) ELSE t

RECURSIVE TrimEnd(_)
TrimEnd(t) ==
    IF t # << >> /\ t[Len(t)].tok = "ws" THEN TrimEnd(SubSeq(t, 1, Len(t) - 1)) ELSE t

\* .replace(/^```json\s*/i, "")
ReplaceOpen(t) ==
    IF Len(t) >= 2 /\ t[1].tok = "fence" /\ t[2].tok = "lang" /\ Lower(t[2].s) = "json"
    THEN TrimStart(SubSeq(t, 3, Len(t)))
    ELSE t

\* .replace(/```$/g, "")
ReplaceClose(t) ==
    IF t # << >> /\ t[Len(t)].tok = "fence" THEN SubSeq(t, 1, Len(t) - 1) ELSE t

\* const cleaned = rawResponse.replace(..).replace(..).trim()
Cleaned(t) == TrimEnd(TrimStart(ReplaceClose(ReplaceOpen(t))))

\* the errors the try block of the parse / validate step throws
NoError == [index |-> -1, what |-> "none"]
Thrown(i, what) == [index |-> i, what |-> what]

\* JSON.parse(cleaned) throws a SyntaxError unless the text is one JSON value
SyntaxError(t) == ~(Len(t) = 1 /\ t[1].tok = "json")

\* flashcards.js: the body of cards.forEach((c, i) => ..)
CardError(c, i) ==
    IF ~IsString(c.question) \/ Trim(c.question) = ""
    THEN Thrown(i, "missing/invalid question")
    ELSE IF ~IsString(c.answer) \/ Trim(c.answer) = ""
    THEN Thrown(i, "missing/invalid answer")
    ELSE NoError

\* a question check whose upper limit of correctAnswer is off by one
QuestionErrorOffByOne(q, i) ==
    IF ~IsString(q.question)
    THEN Thrown(i, "missing/invalid question")
    ELSE IF ~q.options.array \/ Len(q.options.items) # 4
    THEN Thrown(i, "must have exactly 4 options")
    ELSE IF ~q.correctAnswer.int \/ q.correctAnswer.n < 0 \/ q.correctAnswer.n > 4
    THEN Thrown(i, "invalid correctAnswer")
    ELSE NoError

\* quizzes.js: the body of questions.forEach((q, i) => ..)
QuestionError(q, i) ==
    IF ~IsString(q.question)
    THEN Thrown(i, "missing/invalid question")
    ELSE IF ~q.options.array \/ Len(q.options.items) # 4
    THEN Thrown(i, "must have exactly 4 options")
    ELSE IF ~q.correctAnswer.int \/ q.correctAnswer.n < 0 \/ q.correctAnswer.n > 3
    THEN Thrown(i, "invalid correctAnswer")
    ELSE NoError

ElementError(m, e, i) ==
    IF m = "flashcards" THEN CardError(e, i) ELSE QuestionError(e, i)

\* forEach throws at the first element that fails (indexes start at 0)
RECURSIVE FirstError(_, _, _)
FirstError(m, items, i) ==
    IF i > Len(items) THEN NoError
    ELSE IF ElementError(m, items[i], i - 1) # NoError
    THEN ElementError(m, items[i], i - 1)
    ELSE FirstError(m, items, i + 1)

\* what the try block of route module m throws on text t (NoError: nothing)
ValidationError(m, t) ==
    LET cleaned == Cleaned(t)
    IN  IF SyntaxError(cleaned) THEN Thrown(-1, "SyntaxError")
        ELSE LET parsed == cleaned[1].v
             IN  IF ~parsed.array \/ Len(parsed.items) = 0
                 THEN Thrown(-1, "Empty or invalid")
                 ELSE FirstError(m, parsed.items, 1)

\* the parse / validate block of route module m accepts text t
Validates(m, t) == ValidationError(m, t) = NoError

\* the texts the external model answers with while requests run concurrently
Texts == { EmptyText, << Json(Array(<< GoodElement >>)) >>, << Json(NotArray) >> }

\* fenced and unfenced forms of a payload
Wrappers ==
    { << << >>, << >> >>,
      << << Fence, Lang("json"), Ws >>, << Ws, Fence >> >>,
      << << Fence, Lang("JSON"), Ws >>, << Ws, Fence >> >>,
      << << Fence, Lang("json"), Ws >>, << Ws, Fence, Ws >> >>,
      << << Fence, Ws >>, << Ws, Fence >> >>,
      << << Ws >>, << Ws >> >> }

\* every text the external model answers with
AllTexts == { EmptyText } \cup { w[1] \o << Json(p) >> \o w[2] : w \in Wrappers, p \in Payloads }

(***************************************************************************)
(* AIManager                                                               *)
(***************************************************************************)
\* new GoogleGenerativeAI(key).getGenerativeModel(PRIMARY), else FALLBACK, else null
Resolve(k) ==
    IF k \notin DOMAIN resolves THEN Null
    ELSE IF resolves[k] = "primary" THEN Handle(k, PRIMARY_MODEL)
    ELSE IF resolves[k] = "fallback" THEN Handle(k, FALLBACK_MODEL)
    ELSE Null

\* this.models is a Map: set and get on an index
MapSet(m, k, v) == (k :> v) @@ m
MapGet(m, k) == IF k \in DOMAIN m THEN m[k] ELSE Null
Count(m, k) == IF k \in DOMAIN m THEN m[k] ELSE 0

\* initCurrentModel with tryFallback: this.models.set(this.currentIdx, ...)
\* (overwrote records that a set() replaced an entry the Map already held)
InitCurrentModel(mgr) ==
    [mgr EXCEPT !.models = MapSet(mgr.models, mgr.currentIdx, Resolve(mgr.currentIdx)),
                !.overwrote = @ \/ mgr.currentIdx \in DOMAIN mgr.models]

\* constructor(keys): currentIdx = 0, models = new Map(), initCurrentModel()
NewAIManager ==
    InitCurrentModel([currentIdx |-> 0, models |-> << >>, overwrote |-> FALSE])

\* getCurrentModel: this.models.get(this.currentIdx) ?? null
GetCurrentModel(mgr) == MapGet(mgr.models, mgr.currentIdx)

\* an advance that forgets the modulus
NextIdxNoWrap(idx, n) == idx + 1

\* (this.currentIdx + 1) % this.keys.length
NextIdx(idx, n) == (idx + 1) % n

\* a rotation that advances the index and leaves the cache as it was
RotateIfNeededTorn(mgr, err) ==
    IF ~IsRateLimit(err) \/ numKeys = 1
    THEN [mgr |-> mgr, rotated |-> Null, threw |-> FALSE]
    ELSE LET adv == [mgr EXCEPT !.currentIdx = NextIdx(mgr.currentIdx, numKeys)]
             newModel == GetCurrentModel(adv)
         IN  [mgr |-> adv, rotated |-> newModel, threw |-> (newModel = Null)]

\* rotateIfNeeded(error): the manager after the call, the handle returned
\* (Null for `return null`), and whether it threw "All API keys exhausted."
RotateIfNeeded(mgr, err) ==
    IF ~IsRateLimit(err) \/ numKeys = 1
    THEN [mgr |-> mgr, rotated |-> Null, threw |-> FALSE]
    ELSE LET adv == [mgr EXCEPT !.currentIdx = NextIdx(mgr.currentIdx, numKeys)]
             new == InitCurrentModel(adv)
             newModel == GetCurrentModel(new)
         IN  [mgr |-> new, rotated |-> newModel, threw |-> (newModel = Null)]

(***************************************************************************)
(* HTTP responses of the generation handlers.                              *)
(***************************************************************************)
\* res.status(s).json({ error: e }), and with a second field (suggestion, debug)
Resp(s, e) == [status |-> s, error |-> e, detail |-> << >>]
RespWith(s, e, d) == [status |-> s, error |-> e, detail |-> d]
NoResponse == Resp(0, "none")
ModelUnavailable == Resp(500, "ISI AI model not initialized.")
GenerationFailed ==
    RespWith(500, "ISI AI failed to generate after retries and key rotations.",
             << Words("Try again later or use a smaller PDF.") >>)
\* debug: rawResponse.slice(0, 500); the texts of the model are shorter
InvalidFormat(t) == RespWith(500, "ISI AI returned invalid format.", t)
KeysExhaustedError == Resp(500, "Internal server error: All API keys exhausted.")
SaveError == Resp(500, "Internal server error: save failed")
Success == Resp(200, "none")

Uploads == {"missing", "notpdf", "toobig", "ok"}

UploadError(u) ==
    IF u = "missing" THEN Resp(400, "PDF file is required")
    ELSE IF u = "notpdf" THEN Resp(400, "File must be a PDF")
    ELSE Resp(400, "File size exceeds 5MB limit")

(***************************************************************************)
(* Initial state: the process has loaded both route modules; each has      *)
(* constructed its own AIManager over the same GEMINI_API_KEYS.            *)
(***************************************************************************)
Traced(r) == clients = {r}

(***************************************************************************)
(* The stored documents.  A FlashcardSet has an owner, its cards (each     *)
(* with a masteryLevel) and its own masteryLevel; a card's _id is its      *)
(* position.  A Quiz has an owner; a QuizResult names a quiz.              *)
(***************************************************************************)
NumCards == 2       \* cards of the stored flashcard set
MaxOps == 2         \* requests a client sends to the document routes

Users == {"u1", "u2"}
QuizIds == {"q1", "q2"}
QuizOwner == [q \in QuizIds |-> IF q = "q1" THEN "u1" ELSE "u2"]
SetId == "s1"
SetOwner == "u1"

\* Math.round(total / n) for a total that is not negative
Round(total, n) == (2 * total + n) \div (2 * n)

RECURSIVE Sum(_)
Sum(levels) == IF levels = << >> THEN 0 ELSE Head(levels) + Sum(Tail(levels))

\* the set as stored by a generation, and after some study
NewFlashcardSet(levels) ==
    [userId |-> SetOwner, cards |-> levels, masteryLevel |-> Round(Sum(levels), Len(levels))]
NoDoc == [userId |-> "none", cards |-> << >>, masteryLevel |-> 0]

\* a client's request to a document route: the await it is suspended at, the
\* route, req.user.userId, the id it names, cardId, known, the loaded
\* document, the status of the response, and how many the client has sent
\* the QuizResult collection when empty
NoResults == [q \in QuizIds |-> [u \in Users |-> 0]]

OpIdle == [pc |-> "idle", kind |-> "none", user |-> "none", id |-> "none", card |-> 0,
           known |-> "none", doc |-> NoDoc, status |-> 0, sent |-> 0]

InitData ==
    /\ flashcardSet = NewFlashcardSet([i \in 1 .. NumCards |-> 0])
    /\ quizDocs = QuizIds
    /\ quizResults = NoResults
    /\ op = [r \in Reqs |-> OpIdle]

InitServer ==
    /\ aborted = [r \in Reqs |-> "no"]
    /\ InitData
    /\ numKeys \in 1 .. MaxKeys
    /\ resolves \in [0 .. (numKeys - 1) -> {"primary", "fallback", "none"}]
    /\ aiManager = [m \in Routes |-> NewAIManager]
    /\ pc = [r \in Reqs |-> "idle"]
    /\ route \in [Reqs -> Routes]
    /\ model = [r \in Reqs |-> Null]
    /\ attempts = [r \in Reqs |-> 0]
    /\ delay = [r \in Reqs |-> 0]
    /\ rawResponse = [r \in Reqs |-> NoText]
    /\ response = [r \in Reqs |-> NoResponse]
    /\ persisted = [r \in Reqs |-> FALSE]
    /\ allQuota = [r \in Reqs |-> TRUE]
    /\ callsOn = [r \in Reqs |-> << >>]
    /\ trace = [r \in Reqs |-> << >>]
    /\ slept = [r \in Reqs |-> 0]

\* every client sends requests, concurrently
Init == clients = Reqs /\ InitServer

\* one client sends requests, one after the other
InitSolo == clients = {"r1"} /\ InitServer

\* `return res.status(..).json(..)`: the response is sent and the handler's
\* locals are gone
Respond(r, resp) ==
    /\ pc' = [pc EXCEPT ![r] = "done"]
    /\ response' = [response EXCEPT ![r] = resp]
    /\ model' = [model EXCEPT ![r] = Null]
    /\ attempts' = [attempts EXCEPT ![r] = 0]
    /\ delay' = [delay EXCEPT ![r] = 0]
    /\ rawResponse' = [rawResponse EXCEPT ![r] = NoText]
    /\ allQuota' = [allQuota EXCEPT ![r] = TRUE]
    /\ callsOn' = [callsOn EXCEPT ![r] = << >>]
    /\ UNCHANGED slept

\* events of a request's trace
Event(ev, n) == [ev |-> ev, n |-> n]
Overflow == << Event("overflow", 0) >>

\* the request's trace takes the events evs, while there is room for them
Log(r, evs) ==
    trace' = [trace EXCEPT ![r] =
                 IF ~Traced(r) THEN @
                 ELSE IF @ = Overflow \/ Len(@) + Len(evs) > MaxTrace THEN Overflow
                 ELSE @ \o evs]

\* the outcome of a call (an HTTP 429 or not) enters the request's history
Record(r, quota) ==
    IF Traced(r)
    THEN /\ allQuota' = [allQuota EXCEPT ![r] = @ /\ quota]
         /\ callsOn' = [callsOn EXCEPT ![r] = IF allQuota[r] /\ quota THEN @ ELSE << >>]
    ELSE UNCHANGED << allQuota, callsOn >>

\* await model.generateContent(prompt) on handle h
Call(r, h) ==
    /\ pc' = [pc EXCEPT ![r] = "calling"]
    /\ callsOn' = [callsOn EXCEPT ![r] =
                      IF Traced(r) /\ allQuota[r]
                      THEN MapSet(@, h.key, Min(Count(@, h.key) + 1, MaxCount))
                      ELSE @]
    /\ Log(r, << Event("call", h.key) >>)

\* a handler that forgets the model check
StartUnchecked(r, upload) ==
    /\ r \in clients
    /\ pc[r] = "idle"
    /\ IF upload # "ok"
       THEN Respond(r, UploadError(upload))
       ELSE /\ pc' = [pc EXCEPT ![r] = "parsing"]
            /\ model' = [model EXCEPT ![r] = GetCurrentModel(aiManager[route[r]])]
            /\ UNCHANGED << response, attempts, delay, rawResponse, allQuota, callsOn, slept >>
    /\ UNCHANGED << clients, numKeys, resolves, route, aiManager, persisted, trace >>

(***************************************************************************)
(* router.post("/generate-..."): from the model check to the await of the  *)
(* PDF parser.                                                             *)
(***************************************************************************)
Start(r, upload) ==
    /\ r \in clients
    /\ pc[r] = "idle"
    /\ LET currentModel == GetCurrentModel(aiManager[route[r]])
       IN  IF currentModel = Null
           THEN Respond(r, ModelUnavailable)
           ELSE IF upload # "ok"
           THEN Respond(r, UploadError(upload))
           ELSE /\ pc' = [pc EXCEPT ![r] = "parsing"]
                /\ model' = [model EXCEPT ![r] = currentModel]
                /\ UNCHANGED << response, attempts, delay, rawResponse, allQuota,
                                callsOn, slept >>
    /\ UNCHANGED << clients, numKeys, resolves, route, aiManager, persisted, trace >>

\* a handler that forgets the test for blank text
ParseDoneNoBlankTest(r, out) ==
    /\ pc[r] = "parsing"
    /\ IF out = "error"
       THEN Respond(r, Resp(400, "Failed to parse PDF.")) /\ UNCHANGED trace
       ELSE /\ Call(r, model[r])
            /\ UNCHANGED << response, model, attempts, delay, rawResponse, allQuota, slept >>
    /\ UNCHANGED << clients, numKeys, resolves, route, aiManager, persisted >>

\* the PDF parser settles; on text the retry loop starts with its first call
ParseDone(r, out) ==
    /\ pc[r] = "parsing"
    /\ IF out = "error"
       THEN Respond(r, Resp(400, "Failed to parse PDF.")) /\ UNCHANGED trace
       ELSE IF out = "blank"
       THEN Respond(r, Resp(400, "No text found in PDF.")) /\ UNCHANGED trace
       ELSE /\ Call(r, model[r])
            /\ UNCHANGED << response, model, attempts, delay, rawResponse, allQuota, slept >>
    /\ UNCHANGED << clients, numKeys, resolves, route, aiManager, persisted >>

\* the text of a successful call, as the trace records it
Answer(m, t) == Event("answer", IF t # EmptyText /\ Validates(m, t) THEN 1 ELSE 0)

\* a handler that saves the document before it validates the text
CallOkSaveFirst(r, t) ==
    /\ pc[r] = "calling"
    /\ persisted' = [persisted EXCEPT ![r] = (t # EmptyText)]
    /\ Log(r, << Answer(route[r], t) >>)
    /\ IF t = EmptyText
       THEN Respond(r, GenerationFailed)
       ELSE IF ~Validates(route[r], t)
       THEN Respond(r, InvalidFormat(t))
       ELSE /\ pc' = [pc EXCEPT ![r] = "saving"]
            /\ rawResponse' = [rawResponse EXCEPT ![r] = t]
            /\ Record(r, FALSE)
            /\ UNCHANGED << response, model, attempts, delay, slept >>
    /\ UNCHANGED << clients, numKeys, resolves, route, aiManager >>

\* a retry loop whose try block has no break: it calls again after an answer
CallOkNoBreak(r, t) ==
    /\ pc[r] = "calling"
    /\ rawResponse' = [rawResponse EXCEPT ![r] = t]
    /\ Log(r, << Answer(route[r], t), Event("call", model[r].key) >>)
    /\ Record(r, FALSE)
    /\ UNCHANGED << pc, response, model, attempts, delay, slept >>
    /\ UNCHANGED << clients, numKeys, resolves, route, aiManager, persisted >>

\* generateContent resolves with text t: break, then the checks after the loop
CallOk(r, t) ==
    /\ pc[r] = "calling"
    /\ Log(r, << Answer(route[r], t) >>)
    /\ IF t = EmptyText
       THEN Respond(r, GenerationFailed)
       ELSE IF ~Validates(route[r], t)
       THEN Respond(r, InvalidFormat(t))
       ELSE /\ pc' = [pc EXCEPT ![r] = "saving"]
            /\ rawResponse' = [rawResponse EXCEPT ![r] = t]
            /\ Record(r, FALSE)
            /\ UNCHANGED << response, model, attempts, delay, slept >>
    /\ UNCHANGED << clients, numKeys, resolves, route, aiManager, persisted >>

\* a catch branch that backs off on a transient error before it thinks of
\* rotating
CallFailBackoffFirst(r, err) ==
    /\ pc[r] = "calling"
    /\ LET n == attempts[r] + 1
           rot == RotateIfNeeded(aiManager[route[r]], err)
       IN  IF IsTransient(err) /\ n < maxAttempts
           THEN /\ attempts' = [attempts EXCEPT ![r] = n]
                /\ delay' = [delay EXCEPT ![r] = Pow2(n)]
                /\ pc' = [pc EXCEPT ![r] = "sleeping"]
                /\ Record(r, err.status = 429)
                /\ Log(r, << Event("fail", err.status), Event("sleep", Pow2(n)) >>)
                /\ UNCHANGED << response, rawResponse, model, slept, aiManager >>
           ELSE /\ aiManager' = [aiManager EXCEPT ![route[r]] = rot.mgr]
                /\ IF rot.threw
                   THEN /\ Respond(r, KeysExhaustedError)
                        /\ Log(r, << Event("fail", err.status),
                                     Event("rotate", rot.mgr.currentIdx) >>)
                   ELSE IF rot.rotated # Null
                   THEN /\ model' = [model EXCEPT ![r] = rot.rotated]
                        /\ attempts' = [attempts EXCEPT ![r] = 0]
                        /\ delay' = [delay EXCEPT ![r] = 1]
                        /\ pc' = [pc EXCEPT ![r] = "sleeping"]
                        /\ slept' = [slept EXCEPT ![r] = 0]
                        /\ Record(r, err.status = 429)
                        /\ Log(r, << Event("fail", err.status),
                                     Event("rotate", rot.mgr.currentIdx),
                                     Event("sleep", 1) >>)
                        /\ UNCHANGED << response, rawResponse >>
                   ELSE /\ Respond(r, GenerationFailed)
                        /\ Log(r, << Event("fail", err.status) >>)
    /\ UNCHANGED << clients, numKeys, resolves, route, persisted >>

\* a catch branch that starts the attempt count afresh after every sleep
CallFailFreshCount(r, err) ==
    /\ pc[r] = "calling"
    /\ LET n == attempts[r] + 1
           rot == RotateIfNeeded(aiManager[route[r]], err)
       IN  /\ aiManager' = [aiManager EXCEPT ![route[r]] = rot.mgr]
           /\ IF rot.threw
              THEN /\ Respond(r, KeysExhaustedError)
                   /\ Log(r, << Event("fail", err.status),
                                Event("rotate", rot.mgr.currentIdx) >>)
              ELSE IF rot.rotated # Null
              THEN /\ model' = [model EXCEPT ![r] = rot.rotated]
                   /\ attempts' = [attempts EXCEPT ![r] = 0]
                   /\ delay' = [delay EXCEPT ![r] = 1]
                   /\ pc' = [pc EXCEPT ![r] = "sleeping"]
                   /\ slept' = [slept EXCEPT ![r] = 0]
                   /\ Record(r, err.status = 429)
                   /\ Log(r, << Event("fail", err.status),
                                Event("rotate", rot.mgr.currentIdx),
                                Event("sleep", 1) >>)
                   /\ UNCHANGED << response, rawResponse >>
              ELSE IF IsTransient(err) /\ n < maxAttempts
              THEN /\ attempts' = [attempts EXCEPT ![r] = 0]
                   /\ delay' = [delay EXCEPT ![r] = Pow2(n)]
                   /\ pc' = [pc EXCEPT ![r] = "sleeping"]
                   /\ Record(r, err.status = 429)
                   /\ Log(r, << Event("fail", err.status), Event("sleep", Pow2(n)) >>)
                   /\ UNCHANGED << response, rawResponse, model, slept >>
              ELSE /\ Respond(r, GenerationFailed)
                   /\ Log(r, << Event("fail", err.status) >>)
    /\ UNCHANGED << clients, numKeys, resolves, route, persisted >>

\* generateContent rejects with err: the catch branch of the retry loop
CallFail(r, err) ==
    /\ pc[r] = "calling"
    /\ LET n == attempts[r] + 1
           rot == RotateIfNeeded(aiManager[route[r]], err)
       IN  /\ aiManager' = [aiManager EXCEPT ![route[r]] = rot.mgr]
           /\ IF rot.threw
              THEN /\ Respond(r, KeysExhaustedError)
                   /\ Log(r, << Event("fail", err.status),
                                Event("rotate", rot.mgr.currentIdx) >>)
              ELSE IF rot.rotated # Null
              THEN /\ model' = [model EXCEPT ![r] = rot.rotated]
                   /\ attempts' = [attempts EXCEPT ![r] = 0]
                   /\ delay' = [delay EXCEPT ![r] = 1]
                   /\ pc' = [pc EXCEPT ![r] = "sleeping"]
                   /\ slept' = [slept EXCEPT ![r] = 0]
                   /\ Record(r, err.status = 429)
                   /\ Log(r, << Event("fail", err.status),
                                Event("rotate", rot.mgr.currentIdx),
                                Event("sleep", 1) >>)
                   /\ UNCHANGED << response, rawResponse >>
              ELSE IF IsTransient(err) /\ n < maxAttempts
              THEN /\ attempts' = [attempts EXCEPT ![r] = n]
                   /\ delay' = [delay EXCEPT ![r] = Pow2(n)]
                   /\ pc' = [pc EXCEPT ![r] = "sleeping"]
                   /\ Record(r, err.status = 429)
                   /\ Log(r, << Event("fail", err.status), Event("sleep", Pow2(n)) >>)
                   /\ UNCHANGED << response, rawResponse, model, slept >>
              ELSE /\ Respond(r, GenerationFailed)
                   /\ Log(r, << Event("fail", err.status) >>)
    /\ UNCHANGED << clients, numKeys, resolves, route, persisted >>

\* the sleep ends: the loop condition, then the next generateContent call
Wake(r) ==
    /\ pc[r] = "sleeping"
    /\ IF attempts[r] < maxAttempts /\ model[r] # Null
       THEN /\ Call(r, model[r])
            /\ delay' = [delay EXCEPT ![r] = 0]
            /\ slept' = [slept EXCEPT ![r] = IF Traced(r) THEN delay[r] ELSE @]
            /\ UNCHANGED << response, model, attempts, rawResponse, allQuota >>
       ELSE Respond(r, GenerationFailed) /\ UNCHANGED trace
    /\ UNCHANGED << clients, numKeys, resolves, route, aiManager, persisted >>

\* await document.save() settles
SaveDone(r, ok) ==
    /\ pc[r] = "saving"
    /\ IF ok
       THEN /\ persisted' = [persisted EXCEPT ![r] = TRUE]
            /\ Respond(r, Success)
       ELSE /\ Respond(r, SaveError)
            /\ UNCHANGED persisted
    /\ UNCHANGED << clients, numKeys, resolves, route, aiManager, trace >>

\* the connection is closed; the client may send its next request
Finish(r) ==
    /\ pc[r] = "done"
    /\ pc' = [pc EXCEPT ![r] = "idle"]
    /\ response' = [response EXCEPT ![r] = NoResponse]
    /\ persisted' = [persisted EXCEPT ![r] = FALSE]
    /\ trace' = [trace EXCEPT ![r] = << >>]
    /\ slept' = [slept EXCEPT ![r] = 0]
    /\ UNCHANGED << clients, numKeys, resolves, aiManager, route, model, attempts,
                    delay, rawResponse, allQuota, callsOn >>

\* what a step of a generation handler leaves alone
Others == UNCHANGED << aborted, dataVars >>

Next ==
    \/ \E r \in Reqs, u \in Uploads : Start(r, u) /\ Others
    \/ \E r \in Reqs, out \in {"error", "blank", "text"} : ParseDone(r, out) /\ Others
    \/ \E r \in Reqs, t \in Texts : CallOk(r, t) /\ Others
    \/ \E r \in Reqs, err \in Errors : CallFail(r, err) /\ Others
    \/ \E r \in Reqs : Wake(r) /\ Others
    \/ \E r \in Reqs, ok \in BOOLEAN : SaveDone(r, ok) /\ Others
    \/ \E r \in Reqs : Finish(r) /\ Others

Spec == Init /\ [][Next]_vars

SpecSolo == InitSolo /\ [][Next]_vars

(***************************************************************************)
(* The parse / validate step on its own: one key, one client at a time,    *)
(* an external service that always answers, with any text of AllTexts.     *)
(***************************************************************************)
InitReply ==
    /\ aborted = [r \in Reqs |-> "no"]
    /\ InitData
    /\ clients = {"r1"}
    /\ numKeys = 1
    /\ resolves = [k \in {0} |-> "primary"]
    /\ aiManager = [m \in Routes |-> NewAIManager]
    /\ pc = [r \in Reqs |-> "idle"]
    /\ route \in {[r \in Reqs |-> m] : m \in Routes}
    /\ model = [r \in Reqs |-> Null]
    /\ attempts = [r \in Reqs |-> 0]
    /\ delay = [r \in Reqs |-> 0]
    /\ rawResponse = [r \in Reqs |-> NoText]
    /\ response = [r \in Reqs |-> NoResponse]
    /\ persisted = [r \in Reqs |-> FALSE]
    /\ allQuota = [r \in Reqs |-> TRUE]
    /\ callsOn = [r \in Reqs |-> << >>]
    /\ trace = [r \in Reqs |-> << >>]
    /\ slept = [r \in Reqs |-> 0]

NextReply ==
    \/ \E r \in Reqs, u \in Uploads : Start(r, u) /\ Others
    \/ \E r \in Reqs, out \in {"error", "blank", "text"} : ParseDone(r, out) /\ Others
    \/ \E r \in Reqs, t \in AllTexts : CallOk(r, t) /\ Others
    \/ \E r \in Reqs, ok \in BOOLEAN : SaveDone(r, ok) /\ Others
    \/ \E r \in Reqs : Finish(r) /\ Others

SpecReply == InitReply /\ [][NextReply]_vars

(***************************************************************************)
(* The caller goes away.  Nothing in the handler listens for it: the       *)
(* route registers no `close` / `aborted` listener on the request, and     *)
(* sleep is a bare setTimeout that nothing clears.  So the abort changes   *)
(* no state of the handler, which goes on as in Next.                      *)
(***************************************************************************)
Abort(r) ==
    /\ pc[r] \notin {"idle", "done"}
    /\ aborted[r] = "no"
    /\ aborted' = [aborted EXCEPT ![r] = pc[r]]
    /\ UNCHANGED << genVars, dataVars >>

\* the socket of a request that is over is gone with it
Closed(r) ==
    /\ Finish(r)
    /\ aborted' = [aborted EXCEPT ![r] = "no"]
    /\ UNCHANGED dataVars

NextAbort ==
    \/ \E r \in Reqs, u \in Uploads : Start(r, u) /\ Others
    \/ \E r \in Reqs, out \in {"error", "blank", "text"} : ParseDone(r, out) /\ Others
    \/ \E r \in Reqs, t \in Texts : CallOk(r, t) /\ Others
    \/ \E r \in Reqs, err \in Errors : CallFail(r, err) /\ Others
    \/ \E r \in Reqs : Wake(r) /\ Others
    \/ \E r \in Reqs, ok \in BOOLEAN : SaveDone(r, ok) /\ Others
    \/ \E r \in Reqs : Closed(r)
    \/ \E r \in Reqs : Abort(r)

SpecAbort == InitSolo /\ [][NextAbort]_vars

(***************************************************************************)
(* Properties                                                              *)
(***************************************************************************)
RECURSIVE SumOver(_, _)
SumOver(f, S) ==
    IF S = {} THEN 0
    ELSE LET k == CHOOSE x \in S : TRUE IN f[k] + SumOver(f, S \ {k})

\* external calls of request r during its all-429 run
Calls(r) == SumOver(callsOn[r], DOMAIN callsOn[r])

AllResolve == \A k \in Keys : Resolve(k) # Null

\* a quota error as the claims define it: HTTP 429 or a quota / rate-limit message
QuotaError(err) == err.status = 429 \/ err.msg \in {"quota", "RATE_LIMIT", "429"}

InFlight(r) == pc[r] \in {"calling", "sleeping"}

\* C1: with N >= 2 credentials that all resolve and every call answered by
\* HTTP 429, a request rotates through the N credentials and then ends: it
\* has rotated at most N times (each 429 behind a sleeping request is one
\* rotation).
C1_RotatesAtMostPoolSize ==
    \A r \in Reqs :
        (numKeys >= 2 /\ AllResolve /\ allQuota[r] /\ pc[r] = "sleeping")
            => Calls(r) <= numKeys

\* C2: with N >= 2 credentials and every call answered by a quota error, one
\* request makes at most N * 5 external calls.
C2_CallsAtMostPoolTimesBudget ==
    \A r \in Reqs :
        (numKeys >= 2 /\ allQuota[r]) => Calls(r) <= numKeys * maxAttempts

\* C3: within one request no credential receives more than 5 external calls.
C3_AtMostBudgetPerCredential ==
    \A r \in Reqs : \A k \in DOMAIN callsOn[r] : callsOn[r][k] <= maxAttempts

C5_UnavailableOnlyIfNoneResolves ==
    \A r \in Reqs :
        response[r] = ModelUnavailable => \A k \in Keys : Resolve(k) = Null

\* C6: a request that fails inside the retry / rotation loop answers with one
\* of ModelUnavailable, GenerationFailed, InvalidFormat.
C6_LoopFailureIsTyped ==
    [][\A r \in Reqs :
          (InFlight(r) /\ pc'[r] = "done")
              => response'[r].error \in {ModelUnavailable.error, GenerationFailed.error,
                                          InvalidFormat(<< >>).error}]_vars

\* C7: in every state a request can observe, each manager's cache holds the
\* resolved entry (a handle, or null for failed) of its currentIdx.
C7_CacheHoldsCurrentIdx ==
    \A m \in Routes :
        /\ aiManager[m].currentIdx \in DOMAIN aiManager[m].models
        /\ aiManager[m].models[aiManager[m].currentIdx] = Resolve(aiManager[m].currentIdx)

\* a request has just rotated its manager while another request of the same
\* route is waiting on the external service
C7_Witness ==
    \E m \in Routes : \E r1, r2 \in Reqs :
        /\ r1 # r2 /\ route[r1] = m /\ route[r2] = m
        /\ aiManager[m].currentIdx # 0
        /\ pc[r1] = "sleeping" /\ delay[r1] = 1
        /\ pc[r2] = "calling"

\* C8: one rotation state serves both route modules: the flashcard and the
\* quiz handlers always see the same current credential and cache.
C8_SingleRotationState ==
    aiManager["flashcards"] = aiManager["quizzes"]

\* C9: currentIdx of every manager is in [0, number of keys).
C9_CurrentIdxInRange ==
    \A m \in Routes : aiManager[m].currentIdx \in 0 .. (numKeys - 1)

\* two concurrent requests have rotated their manager all the way round
C9_Witness ==
    /\ numKeys >= 2
    /\ \E m \in Routes :
        /\ aiManager[m].overwrote
        /\ aiManager[m].currentIdx = 0
        /\ \A r \in Reqs : route[r] = m /\ InFlight(r)

HasPayload(t) == \E i \in 1 .. Len(t) : t[i].tok = "json"

\* the JSON value a text carries
PayloadOf(t) == t[CHOOSE i \in 1 .. Len(t) : t[i].tok = "json"].v

IsInvalidFormat(resp) == resp.error = InvalidFormat(<< >>).error

\* the payloads C14 lists, for route module m
Listed14(m, p) ==
    \/ ~p.array
    \/ Len(p.items) = 0
    \/ /\ m = "flashcards"
       /\ \E i \in 1 .. Len(p.items) : p.items[i].answer = "undefined"
    \/ /\ m = "quizzes"
       /\ \E i \in 1 .. Len(p.items) :
            \/ p.items[i].options.array /\ Len(p.items[i].options.items) = 3
            \/ p.items[i].correctAnswer = Integer(4)

\* the text a request has received: on its way to be saved, or echoed as debug
Received(r) ==
    IF pc[r] = "saving" THEN rawResponse[r]
    ELSE IF pc[r] = "done" /\ IsInvalidFormat(response[r]) THEN response[r].detail
    ELSE EmptyText

\* C14: a text whose payload is not an array, is an empty array, has a
\* flashcard without answer, a quiz question with 3 options or a quiz
\* question with correctAnswer 4 is answered with InvalidFormat: it is not
\* accepted and nothing is saved.
C14_ListedPayloadsRejected ==
    [][\A r \in Reqs :
          (pc[r] = "calling" /\ pc'[r] # "calling"
                /\ HasPayload(Received(r)')
                /\ Listed14(route[r], PayloadOf(Received(r)')))
              => /\ pc'[r] = "done"
                 /\ IsInvalidFormat(response'[r])
                 /\ persisted' = persisted]_vars

\* a quiz answer whose second question has correctAnswer 4 was rejected
C14_Witness ==
    \E r \in Reqs :
        /\ route[r] = "quizzes" /\ pc[r] = "done" /\ IsInvalidFormat(response[r])
        /\ response[r].detail =
              << Json(Array(<< GoodElement, Element("Q", "Q", FourOptions, Integer(4)) >>)) >>

\* a quiz question as spec and claim C15 require it
WellFormedQuestion(q) ==
    /\ IsString(q.question) /\ q.question # ""
    /\ q.options.array /\ Len(q.options.items) = 4
    /\ \A j \in 1 .. Len(q.options.items) :
          IsString(q.options.items[j]) /\ q.options.items[j] # ""
    /\ q.correctAnswer.int /\ q.correctAnswer.n \in 0 .. 3

\* C15: the quiz handler goes on to save a payload only if every element
\* has a non-empty question, exactly 4 non-empty text options and an integer
\* correctAnswer in [0,3].
C15_QuizAcceptsOnlyWellFormed ==
    \A r \in Reqs :
        (route[r] = "quizzes" /\ pc[r] = "saving")
            => \A i \in 1 .. Len(PayloadOf(rawResponse[r]).items) :
                  WellFormedQuestion(PayloadOf(rawResponse[r]).items[i])

\* C16: when validation failed on an element, the InvalidFormat response
\* carries the index of that element.
C16_InvalidFormatNamesIndex ==
    \A r \in Reqs :
        (IsInvalidFormat(response[r])
            /\ ValidationError(route[r], response[r].detail).index >= 0)
            => \E j \in 1 .. Len(response[r].detail) :
                  response[r].detail[j] =
                      Number(ValidationError(route[r], response[r].detail).index)

\* a fenced code block around one JSON value: opening fence, an optional
\* language tag, white space, the value, white space, closing fence, and
\* possibly white space after it
RECURSIVE Kinds(_)
Kinds(t) == IF t = << >> THEN << >> ELSE << Head(t).tok >> \o Kinds(Tail(t))

FencedBlock(t) ==
    Kinds(t) \in { << "fence", "lang", "ws", "json", "ws", "fence" >>,
                   << "fence", "ws", "json", "ws", "fence" >>,
                   << "fence", "lang", "ws", "json", "ws", "fence", "ws" >>,
                   << "fence", "ws", "json", "ws", "fence", "ws" >> }

\* C17: a payload in a fenced code block validates as the same payload
\* without the fence does, and stripping the fence twice gives what
\* stripping it once gives.
C17_FenceTransparent ==
    \A r \in Reqs :
        FencedBlock(Received(r))
            => /\ Validates(route[r], Received(r))
                    = Validates(route[r], << Json(PayloadOf(Received(r))) >>)
               /\ Cleaned(Cleaned(Received(r))) = Cleaned(Received(r))

(***************************************************************************)
(* Properties of the handlers' outcomes (under Spec).                      *)
(***************************************************************************)
TypedFailure(resp) ==
    resp.error \in {ModelUnavailable.error, GenerationFailed.error, InvalidFormat(<< >>).error}

\* C18: a document is persisted only by the save that follows a successful
\* call whose whole text passed validation, and a request that ends in
\* ModelUnavailable, GenerationFailed or InvalidFormat leaves the persisted
\* documents as they were and returns no content.
C18_AllOrNothing ==
    [][\A r \in Reqs :
          /\ (persisted'[r] /\ ~persisted[r])
                => /\ pc[r] = "saving"
                   /\ rawResponse[r] # NoText
                   /\ Validates(route[r], rawResponse[r])
                   /\ response'[r] = Success
          /\ (pc[r] # "done" /\ pc'[r] = "done" /\ TypedFailure(response'[r]))
                => /\ persisted' = persisted
                   /\ response'[r].status = 500]_vars

\* one request has saved its document while another was answered InvalidFormat
C18_Witness ==
    \E r1, r2 \in Reqs :
        /\ pc[r1] = "done" /\ response[r1] = Success /\ persisted[r1]
        /\ pc[r2] = "done" /\ IsInvalidFormat(response[r2]) /\ ~persisted[r2]

\* C19: a request that starts while its manager has no usable handle for
\* currentIdx is answered ModelUnavailable in the same step: no external
\* call, no rotation, no retry, rotation state unchanged.
C19_NoHandleFailsAtOnce ==
    [][\A r \in Reqs :
          (pc[r] = "idle" /\ pc'[r] # "idle"
                /\ GetCurrentModel(aiManager[route[r]]) = Null)
              => /\ pc'[r] = "done"
                 /\ response'[r] = ModelUnavailable
                 /\ aiManager' = aiManager
                 /\ attempts'[r] = 0 /\ delay'[r] = 0
                 /\ callsOn' = callsOn]_vars

\* a request was turned away with ModelUnavailable after a rotation by
\* another request had moved the manager onto a key without model
C19_Witness ==
    \E r \in Reqs :
        /\ pc[r] = "done" /\ response[r] = ModelUnavailable
        /\ aiManager[route[r]].currentIdx # 0

\* C20: the GenerationFailed response that ends the retry loop carries the
\* message of the last error the loop caught.
C20_FailureCarriesLastError ==
    [][\A r \in Reqs : \A err \in Errors :
          (CallFail(r, err) /\ response'[r].error = GenerationFailed.error)
              => \E j \in 1 .. Len(response'[r].detail) :
                    response'[r].detail[j] = Words(err.msg)]_vars

(***************************************************************************)
(* Properties of one request's course (under SpecSolo, where the trace of  *)
(* the request is kept).                                                   *)
(***************************************************************************)
\* the outcomes of the external calls of a trace, in order
RECURSIVE Outcomes(_)
Outcomes(tr) ==
    IF tr = << >> THEN << >>
    ELSE IF Head(tr).ev \in {"fail", "answer"} THEN << Head(tr) >> \o Outcomes(Tail(tr))
    ELSE Outcomes(Tail(tr))

Valid == Event("answer", 1)

\* C11: with at least two credentials, when the first external call of a
\* request returns HTTP 429 and the first call on the next credential
\* returns valid output, the request has made exactly 2 external calls and 1
\* rotation onto the next index, holds the validated text, and answers
\* Success once the document is saved.
C11_QuotaThenValid ==
    \A r \in Reqs :
        (numKeys >= 2 /\ Len(Outcomes(trace[r])) >= 2
            /\ Outcomes(trace[r])[1] = Event("fail", 429)
            /\ Outcomes(trace[r])[2] = Valid)
        => LET k == trace[r][1].n
           IN  /\ trace[r] = << Event("call", k), Event("fail", 429),
                                Event("rotate", (k + 1) % numKeys), Event("sleep", 1),
                                Event("call", (k + 1) % numKeys), Valid >>
               /\ aiManager[route[r]].currentIdx = (k + 1) % numKeys
               /\ pc[r] \in {"saving", "done"}
               /\ pc[r] = "saving" => Validates(route[r], rawResponse[r])
               /\ pc[r] = "done" => response[r] \in {Success, SaveError}
               /\ persisted[r] <=> response[r] = Success

\* a request was answered Success after a 429 and one rotation
C11_Witness ==
    \E r \in Reqs :
        /\ pc[r] = "done" /\ response[r] = Success /\ persisted[r]
        /\ Len(trace[r]) = 6 /\ trace[r][3].ev = "rotate"

\* C12: when the first external call of a request returns valid output, the
\* request has made exactly one external call, no rotation and no sleep,
\* holds the validated text, and answers Success once the document is saved.
C12_FirstCallValid ==
    \A r \in Reqs :
        (Len(Outcomes(trace[r])) >= 1 /\ Outcomes(trace[r])[1] = Valid)
        => /\ Len(trace[r]) = 2
           /\ trace[r][1].ev = "call"
           /\ aiManager[route[r]].currentIdx = trace[r][1].n
           /\ pc[r] \in {"saving", "done"}
           /\ delay[r] = 0 /\ slept[r] = 0
           /\ pc[r] = "saving" => Validates(route[r], rawResponse[r])
           /\ pc[r] = "done" => response[r] \in {Success, SaveError}
           /\ persisted[r] <=> response[r] = Success

\* a request was answered Success after a single call
C12_Witness ==
    \E r \in Reqs :
        /\ pc[r] = "done" /\ response[r] = Success /\ persisted[r]
        /\ Len(trace[r]) = 2

\* C13: a failure that is retried on the same handle sleeps 2^attempts
\* seconds, attempts being the count of consecutive failures on that handle,
\* and longer than the previous sleep on that handle.
C13_BackoffGrows ==
    [][\A r \in Reqs :
          (pc[r] = "calling" /\ pc'[r] = "sleeping" /\ model'[r] = model[r])
              => /\ attempts'[r] = attempts[r] + 1
                 /\ delay'[r] = Pow2(attempts'[r])
                 /\ delay'[r] > slept[r]]_vars

\* a request sleeps 8 seconds after sleeps of 2 and 4 on the same handle
C13_Witness ==
    \E r \in Reqs : pc[r] = "sleeping" /\ slept[r] = 4 /\ delay[r] = 8 /\ attempts[r] = 3

(***************************************************************************)
(* Properties of the rotation and of the catch branch.                     *)
(***************************************************************************)
\* a transient error as the spec defines it: status 429, 500 or 503, or a
\* quota / timeout message
TransientError(err) == err.status \in {429, 500, 503} \/ err.msg \in {"quota", "timeout"}

\* C22: when the error is no quota / rate-limit signal, or the pool has one
\* credential, rotateIfNeeded returns no handle and leaves currentIdx and the
\* handle cache as they were; status 500 / 503 and timeouts never rotate.
C22_NoRotationWithoutQuota ==
    [][\A r \in Reqs : \A err \in Errors :
          (CallFail(r, err) /\ (~QuotaError(err) \/ numKeys = 1))
              => /\ RotateIfNeeded(aiManager[route[r]], err).rotated = Null
                 /\ ~RotateIfNeeded(aiManager[route[r]], err).threw
                 /\ aiManager' = aiManager
                 /\ pc'[r] = "sleeping" => model'[r] = model[r]]_vars

\* a request of a pool of two backs off on the handle it had, after an error
\* that is transient and no quota signal
C22_Witness ==
    \E r \in Reqs :
        /\ numKeys >= 2 /\ pc[r] = "sleeping" /\ delay[r] = 2
        /\ model[r].key = aiManager[route[r]].currentIdx

\* C23: with at least two credentials and a quota error, one rotateIfNeeded
\* call sets currentIdx to (currentIdx + 1) mod poolSize, caches what
\* resolves for that index (primary, else fallback, else failed) and returns
\* exactly that entry; the other entries stay.
C23_RotationReturnsNextHandle ==
    [][\A r \in Reqs : \A err \in Errors :
          (CallFail(r, err) /\ numKeys >= 2 /\ QuotaError(err))
              => LET old == aiManager[route[r]]
                     new == aiManager'[route[r]]
                     rot == RotateIfNeeded(old, err)
                 IN  /\ new.currentIdx = (old.currentIdx + 1) % numKeys
                     /\ new.models[new.currentIdx] = Resolve(new.currentIdx)
                     /\ \A k \in DOMAIN old.models \ {new.currentIdx} :
                           new.models[k] = old.models[k]
                     /\ ~rot.threw
                     /\ rot.rotated = new.models[new.currentIdx]]_vars

\* C24: inside the retry loop the attempt counter goes back to zero exactly
\* when a rotation gave the request a new handle, a retry on the same handle
\* counts on, and the 5th consecutive failure on one handle that does not
\* rotate ends the request with GenerationFailed whatever other credentials
\* the pool has.
C24_CounterResetOnlyByRotation ==
    [][\A r \in Reqs : \A err \in Errors :
          CallFail(r, err)
              => /\ pc'[r] = "sleeping"
                    => /\ (attempts'[r] = 0) <=> (model'[r] # model[r])
                       /\ (model'[r] = model[r]) => attempts'[r] = attempts[r] + 1
                 /\ (attempts[r] = 4 /\ TransientError(err)
                        /\ (~QuotaError(err) \/ numKeys = 1))
                    => /\ pc'[r] = "done"
                       /\ response'[r] = GenerationFailed
                       /\ aiManager' = aiManager]_vars

\* a request ended with GenerationFailed after four backoffs on key #1 of a
\* pool whose other credentials were never tried
C24_Witness ==
    \E r \in Reqs :
        /\ numKeys >= 2 /\ pc[r] = "done" /\ response[r] = GenerationFailed
        /\ slept[r] = 16
        /\ DOMAIN aiManager[route[r]].models = {0}

\* C25: a failed attempt is handled in one way: rotation (only on a quota
\* signal), else backoff (only on a transient error), else the loop ends; an
\* error that is neither ends the request at once with GenerationFailed, with
\* no sleep, no rotation and no further call.
C25_FailureHandledOneWay ==
    [][\A r \in Reqs : \A err \in Errors :
          CallFail(r, err)
              => /\ aiManager' # aiManager => QuotaError(err)
                 /\ (pc'[r] = "sleeping" /\ aiManager' = aiManager) => TransientError(err)
                 /\ (~QuotaError(err) /\ ~TransientError(err))
                    => /\ pc'[r] = "done"
                       /\ response'[r] = GenerationFailed
                       /\ aiManager' = aiManager
                       /\ delay'[r] = 0]_vars

\* a request ended with GenerationFailed right after its first call was
\* refused with status 400
C25_Witness ==
    \E r \in Reqs :
        /\ pc[r] = "done" /\ response[r] = GenerationFailed
        /\ Len(trace[r]) = 2 /\ trace[r][2] = Event("fail", 400)

\* C26: the first non-empty text ends the retry loop with no call after it,
\* and a request that leaves the loop without a non-empty text is answered
\* GenerationFailed.
C26_NoTextMeansGenerationFailed ==
    [][\A r \in Reqs :
          /\ (pc[r] = "calling" /\ pc'[r] = "saving") => rawResponse'[r] # EmptyText
          /\ (InFlight(r) /\ pc'[r] = "done" /\ ~IsInvalidFormat(response'[r]))
                => response'[r] = GenerationFailed]_vars

\* C27 (as claimed): a request whose upload is missing, no PDF or too big,
\* whose PDF fails to parse or holds only white space is answered with a
\* client error, and makes no external call and no rotation.
C27_BadUploadIsClientError ==
    [][\A r \in Reqs :
          /\ \A u \in Uploads \ {"ok"} :
                Start(r, u) => /\ pc'[r] = "done"
                               /\ response'[r].status = 400
                               /\ aiManager' = aiManager
          /\ \A out \in {"error", "blank"} :
                ParseDone(r, out) => /\ pc'[r] = "done"
                                     /\ response'[r].status = 400
                                     /\ aiManager' = aiManager]_vars

\* C27 (amended): such a request makes no external call and no rotation; it
\* is answered with a client error when the manager has a usable handle for
\* currentIdx, and with ModelUnavailable when it has none.
C27_BadUploadNeverCalls ==
    [][\A r \in Reqs :
          /\ \A u \in Uploads \ {"ok"} :
                Start(r, u) => /\ pc'[r] = "done"
                               /\ IF GetCurrentModel(aiManager[route[r]]) # Null
                                  THEN response'[r].status = 400
                                  ELSE response'[r] = ModelUnavailable
                               /\ aiManager' = aiManager
                               /\ trace' = trace
          /\ \A out \in {"error", "blank"} :
                ParseDone(r, out) => /\ pc'[r] = "done"
                                     /\ response'[r].status = 400
                                     /\ aiManager' = aiManager
                                     /\ trace' = trace]_vars

\* a request whose PDF holds only white space was answered 400
C27_Witness ==
    \E r \in Reqs : pc[r] = "done" /\ response[r] = Resp(400, "No text found in PDF.")

\* C28: the handle a request goes on with after a rotation belongs to another
\* credential than the one whose quota error made it rotate.
C28_RotatesAwayFromExhaustedKey ==
    [][\A r \in Reqs : \A err \in Errors :
          (CallFail(r, err) /\ numKeys >= 2 /\ aiManager' # aiManager
                /\ pc'[r] = "sleeping")
              => model'[r].key # model[r].key]_vars

(***************************************************************************)
(* The document routes.  Each `await` of a Mongoose query or save is a     *)
(* point where other requests run; the query or update itself is one       *)
(* atomic operation of the database.                                       *)
(***************************************************************************)
GenIdle ==
    /\ clients = Reqs
    /\ numKeys = 1
    /\ resolves = [k \in {0} |-> "primary"]
    /\ aiManager = [m \in Routes |-> NewAIManager]
    /\ pc = [r \in Reqs |-> "idle"]
    /\ route = [r \in Reqs |-> "flashcards"]
    /\ model = [r \in Reqs |-> Null]
    /\ attempts = [r \in Reqs |-> 0]
    /\ delay = [r \in Reqs |-> 0]
    /\ rawResponse = [r \in Reqs |-> NoText]
    /\ response = [r \in Reqs |-> NoResponse]
    /\ persisted = [r \in Reqs |-> FALSE]
    /\ allQuota = [r \in Reqs |-> TRUE]
    /\ callsOn = [r \in Reqs |-> << >>]
    /\ trace = [r \in Reqs |-> << >>]
    /\ slept = [r \in Reqs |-> 0]
    /\ aborted = [r \in Reqs |-> "no"]

\* the response is sent
Reply(r, status) ==
    op' = [op EXCEPT ![r] = [OpIdle EXCEPT !.pc = "done", !.kind = op[r].kind,
                                            !.user = op[r].user, !.id = op[r].id,
                                            !.status = status, !.sent = op[r].sent]]

\* the client reads the response; its next request is a new one
Read(r) ==
    /\ op[r].pc = "done"
    /\ op' = [op EXCEPT ![r] = [OpIdle EXCEPT !.sent = op[r].sent]]
    /\ UNCHANGED << genVars, aborted, flashcardSet, quizDocs, quizResults >>

\* values of the `known` field of a request body
Knowns == {"true", "false", "'yes'"}
IsBoolean(k) == k \in {"true", "false"}

Max(a, b) == IF a > b THEN a ELSE b

\* Math.min(100, Math.max(0, card.masteryLevel + (known ? 15 : -10)))
Studied(level, known) ==
    Min(100, Max(0, level + (IF known = "true" THEN 15 ELSE -10)))

\* FlashcardSet.findOne({ _id, userId })
FindSet(id, user) ==
    IF id = SetId /\ flashcardSet.userId = user THEN flashcardSet ELSE NoDoc

\* POST /sets/:id/study up to `await FlashcardSet.findOne(..)`
StudyStart(r, user, id, cardId, known) ==
    /\ op[r].pc = "idle"
    /\ op[r].sent < MaxOps
    /\ op' = [op EXCEPT ![r] =
                 IF ~IsBoolean(known)
                 THEN [OpIdle EXCEPT !.pc = "done", !.kind = "study", !.user = user,
                                     !.id = id, !.status = 400, !.sent = op[r].sent + 1]
                 ELSE [OpIdle EXCEPT !.pc = "finding", !.kind = "study", !.user = user,
                                     !.id = id, !.card = cardId, !.known = known,
                                     !.sent = op[r].sent + 1]]
    /\ UNCHANGED << genVars, aborted, flashcardSet, quizDocs, quizResults >>

\* the query settles; the handler changes its copy of the document, up to
\* `await set.save()`
StudyFound(r, ok) ==
    /\ op[r].pc = "finding"
    /\ op[r].kind = "study"
    /\ LET set == FindSet(op[r].id, op[r].user)
           c == op[r].card
       IN  IF ~ok THEN Reply(r, 500)
           ELSE IF set = NoDoc THEN Reply(r, 404)
           ELSE IF c \notin 1 .. Len(set.cards) THEN Reply(r, 404)
           ELSE LET cards == [set.cards EXCEPT ![c] = Studied(@, op[r].known)]
                IN  op' = [op EXCEPT ![r].pc = "saving",
                                     ![r].doc = [set EXCEPT
                                         !.cards = cards,
                                         !.masteryLevel = Round(Sum(cards), Len(cards))]]
    /\ UNCHANGED << genVars, aborted, flashcardSet, quizDocs, quizResults >>

\* the save settles: it has written the paths the handler modified, the
\* card's masteryLevel and the set's (and lastStudied); it rejects when the
\* document is no longer stored
StudySaved(r, ok) ==
    /\ op[r].pc = "saving"
    /\ op[r].kind = "study"
    /\ IF ok /\ flashcardSet # NoDoc
       THEN /\ flashcardSet' = [flashcardSet EXCEPT
                                   !.cards[op[r].card] = op[r].doc.cards[op[r].card],
                                   !.masteryLevel = op[r].doc.masteryLevel]
            /\ op' = [op EXCEPT ![r].pc = "done", ![r].status = 200]
       ELSE /\ Reply(r, 500)
            /\ UNCHANGED flashcardSet
    /\ UNCHANGED << genVars, aborted, quizDocs, quizResults >>

\* levels a card of a studied set can have at the start
StartLevels == {0, 50, 100}

InitStudy ==
    /\ GenIdle
    /\ flashcardSet \in {NewFlashcardSet(l) : l \in [1 .. NumCards -> StartLevels]}
    /\ quizDocs = QuizIds
    /\ quizResults = NoResults
    /\ op = [r \in Reqs |-> OpIdle]

NextStudy ==
    \/ \E r \in Reqs, u \in Users, id \in {SetId, "s0"}, c \in 1 .. (NumCards + 1),
          k \in Knowns : StudyStart(r, u, id, c, k)
    \/ \E r \in Reqs, ok \in BOOLEAN : StudyFound(r, ok)
    \/ \E r \in Reqs, ok \in BOOLEAN : StudySaved(r, ok)
    \/ \E r \in Reqs : Read(r)

SpecStudy == InitStudy /\ [][NextStudy]_vars

\* C29: after any sequence of study updates every card's masteryLevel is in
\* 0 .. 100 and the set's masteryLevel is the rounded mean of its cards'
\* levels, and so in 0 .. 100 too
C29_MasteryIsRoundedMean ==
    /\ \A i \in 1 .. Len(flashcardSet.cards) : flashcardSet.cards[i] \in 0 .. 100
    /\ flashcardSet.masteryLevel =
           Round(Sum(flashcardSet.cards), Len(flashcardSet.cards))
    /\ flashcardSet.masteryLevel \in 0 .. 100

\* a quiz that is found whoever asks for it
FindQuizOfAnyone(id, user) == id \in quizDocs

\* Quiz.findOne({ _id, userId }) finds a document
FindQuiz(id, user) == id \in quizDocs /\ QuizOwner[id] = user

\* POST /quiz-results up to `await Quiz.findOne(..)`
ResultStart(r, user, quizId) ==
    /\ op[r].pc = "idle"
    /\ op[r].sent < MaxOps
    /\ op' = [op EXCEPT ![r] =
                 [OpIdle EXCEPT !.pc = "finding", !.kind = "result", !.user = user,
                                !.id = quizId, !.sent = op[r].sent + 1]]
    /\ UNCHANGED << genVars, aborted, flashcardSet, quizDocs, quizResults >>

\* the query settles; `new QuizResult(..)`, up to `await result.save()`
ResultFound(r, ok) ==
    /\ op[r].pc = "finding"
    /\ op[r].kind = "result"
    /\ IF ~ok THEN Reply(r, 500)
       ELSE IF ~FindQuiz(op[r].id, op[r].user) THEN Reply(r, 404)
       ELSE op' = [op EXCEPT ![r].pc = "saving"]
    /\ UNCHANGED << genVars, aborted, flashcardSet, quizDocs, quizResults >>

\* the save settles: the result is stored
ResultSaved(r, ok) ==
    /\ op[r].pc = "saving"
    /\ op[r].kind = "result"
    /\ IF ok
       THEN /\ quizResults' = [quizResults EXCEPT ![op[r].id][op[r].user] = @ + 1]
            /\ Reply(r, 200)
       ELSE /\ Reply(r, 500)
            /\ UNCHANGED quizResults
    /\ UNCHANGED << genVars, aborted, flashcardSet, quizDocs >>

\* DELETE /sets/:id of the quiz router up to `await Quiz.findOneAndDelete(..)`
DeleteStart(r, user, id) ==
    /\ op[r].pc = "idle"
    /\ op[r].sent < MaxOps
    /\ op' = [op EXCEPT ![r] =
                 [OpIdle EXCEPT !.pc = "deleting", !.kind = "delete", !.user = user,
                                !.id = id, !.sent = op[r].sent + 1]]
    /\ UNCHANGED << genVars, aborted, flashcardSet, quizDocs, quizResults >>

\* findOneAndDelete settles: the quiz is gone; up to
\* `await QuizResult.deleteMany({ quizId })`
DeleteFound(r, ok) ==
    /\ op[r].pc = "deleting"
    /\ IF ~ok
       THEN Reply(r, 500) /\ UNCHANGED quizDocs
       ELSE IF ~FindQuiz(op[r].id, op[r].user)
       THEN Reply(r, 404) /\ UNCHANGED quizDocs
       ELSE /\ quizDocs' = quizDocs \ {op[r].id}
            /\ op' = [op EXCEPT ![r].pc = "purging"]
    /\ UNCHANGED << genVars, aborted, flashcardSet, quizResults >>

\* deleteMany settles: the results stored by now that name the quiz are gone
DeletePurged(r, ok) ==
    /\ op[r].pc = "purging"
    /\ IF ok
       THEN /\ quizResults' = [quizResults EXCEPT ![op[r].id] = [u \in Users |-> 0]]
            /\ Reply(r, 200)
       ELSE /\ Reply(r, 500)
            /\ UNCHANGED quizResults
    /\ UNCHANGED << genVars, aborted, flashcardSet, quizDocs >>

InitQuiz == GenIdle /\ InitData

NextQuiz ==
    \/ \E r \in Reqs, u \in Users, q \in QuizIds : ResultStart(r, u, q)
    \/ \E r \in Reqs, ok \in BOOLEAN : ResultFound(r, ok)
    \/ \E r \in Reqs, ok \in BOOLEAN : ResultSaved(r, ok)
    \/ \E r \in Reqs, u \in Users, q \in QuizIds : DeleteStart(r, u, q)
    \/ \E r \in Reqs, ok \in BOOLEAN : DeleteFound(r, ok)
    \/ \E r \in Reqs, ok \in BOOLEAN : DeletePurged(r, ok)
    \/ \E r \in Reqs : Read(r)

SpecQuiz == InitQuiz /\ [][NextQuiz]_vars

\* the deletion request of r has completed: the quiz and its results were
\* deleted and the success response is sent
Deleted(r) == op[r].pc = "done" /\ op[r].kind = "delete" /\ op[r].status = 200

\* C30: once a quiz deletion has completed no QuizResult names the deleted
\* quiz, also when a save-result request for that quiz ran concurrently
C30_NoResultOfDeletedQuiz ==
    \A r \in Reqs : Deleted(r) => \A u \in Users : quizResults[op[r].id][u] = 0

(***************************************************************************)
(* The routes that return or delete one document, and all document routes  *)
(* together, each request made by any user on any id.                      *)
(***************************************************************************)
\* the documents a response carries
QuizDoc(id) == [userId |-> QuizOwner[id], id |-> id]
ResultDoc(id, user) == [userId |-> user, quizId |-> id]

\* `res.json({ success: true, <document> })`
ReplyWith(r, doc) ==
    op' = [op EXCEPT ![r].pc = "done", ![r].status = 200, ![r].doc = doc]

\* a handler up to its first await, a query by id and userId
Query(r, pc0, kind, user, id) ==
    /\ op[r].pc = "idle"
    /\ op[r].sent < MaxOps
    /\ op' = [op EXCEPT ![r] =
                 [OpIdle EXCEPT !.pc = pc0, !.kind = kind, !.user = user, !.id = id,
                                !.sent = op[r].sent + 1]]
    /\ UNCHANGED << genVars, aborted, flashcardSet, quizDocs, quizResults >>

\* GET /sets/:id of the flashcard router
GetSetStart(r, user, id) == Query(r, "finding", "getSet", user, id)

GetSetFound(r, ok) ==
    /\ op[r].pc = "finding"
    /\ op[r].kind = "getSet"
    /\ LET set == FindSet(op[r].id, op[r].user)
       IN  IF ~ok THEN Reply(r, 500)
           ELSE IF set = NoDoc THEN Reply(r, 404)
           ELSE ReplyWith(r, set)
    /\ UNCHANGED << genVars, aborted, flashcardSet, quizDocs, quizResults >>

\* DELETE /sets/:id of the flashcard router
DeleteSetStart(r, user, id) == Query(r, "removing", "deleteSet", user, id)

\* FlashcardSet.findOneAndDelete({ _id, userId }) settles
DeleteSetFound(r, ok) ==
    /\ op[r].pc = "removing"
    /\ IF ~ok
       THEN Reply(r, 500) /\ UNCHANGED flashcardSet
       ELSE IF FindSet(op[r].id, op[r].user) = NoDoc
       THEN Reply(r, 404) /\ UNCHANGED flashcardSet
       ELSE Reply(r, 200) /\ flashcardSet' = NoDoc
    /\ UNCHANGED << genVars, aborted, quizDocs, quizResults >>

\* GET /:id of the quiz router
GetQuizStart(r, user, id) == Query(r, "finding", "getQuiz", user, id)

GetQuizFound(r, ok) ==
    /\ op[r].pc = "finding"
    /\ op[r].kind = "getQuiz"
    /\ IF ~ok THEN Reply(r, 500)
       ELSE IF ~FindQuiz(op[r].id, op[r].user) THEN Reply(r, 404)
       ELSE ReplyWith(r, QuizDoc(op[r].id))
    /\ UNCHANGED << genVars, aborted, flashcardSet, quizDocs, quizResults >>

\* GET /quiz-results/:quizId: QuizResult.findOne({ quizId, userId })
GetResultStart(r, user, id) == Query(r, "finding", "getResult", user, id)

GetResultFound(r, ok) ==
    /\ op[r].pc = "finding"
    /\ op[r].kind = "getResult"
    /\ IF ~ok THEN Reply(r, 500)
       ELSE IF quizResults[op[r].id][op[r].user] = 0 THEN Reply(r, 404)
       ELSE ReplyWith(r, ResultDoc(op[r].id, op[r].user))
    /\ UNCHANGED << genVars, aborted, flashcardSet, quizDocs, quizResults >>

SetIds == {SetId, "s0"}

NextDocs ==
    \/ \E r \in Reqs, u \in Users, id \in SetIds, c \in 1 .. (NumCards + 1),
          k \in Knowns : StudyStart(r, u, id, c, k)
    \/ \E r \in Reqs, ok \in BOOLEAN : StudyFound(r, ok)
    \/ \E r \in Reqs, ok \in BOOLEAN : StudySaved(r, ok)
    \/ \E r \in Reqs, u \in Users, id \in SetIds : GetSetStart(r, u, id)
    \/ \E r \in Reqs, ok \in BOOLEAN : GetSetFound(r, ok)
    \/ \E r \in Reqs, u \in Users, id \in SetIds : DeleteSetStart(r, u, id)
    \/ \E r \in Reqs, ok \in BOOLEAN : DeleteSetFound(r, ok)
    \/ \E r \in Reqs, u \in Users, q \in QuizIds : GetQuizStart(r, u, q)
    \/ \E r \in Reqs, ok \in BOOLEAN : GetQuizFound(r, ok)
    \/ \E r \in Reqs, u \in Users, q \in QuizIds : ResultStart(r, u, q)
    \/ \E r \in Reqs, ok \in BOOLEAN : ResultFound(r, ok)
    \/ \E r \in Reqs, ok \in BOOLEAN : ResultSaved(r, ok)
    \/ \E r \in Reqs, u \in Users, q \in QuizIds : GetResultStart(r, u, q)
    \/ \E r \in Reqs, ok \in BOOLEAN : GetResultFound(r, ok)
    \/ \E r \in Reqs, u \in Users, q \in QuizIds : DeleteStart(r, u, q)
    \/ \E r \in Reqs, ok \in BOOLEAN : DeleteFound(r, ok)
    \/ \E r \in Reqs, ok \in BOOLEAN : DeletePurged(r, ok)
    \/ \E r \in Reqs : Read(r)

SpecDocs == InitQuiz /\ [][NextDocs]_vars

\* the request names a document of a user other than the one who sends it
Foreign(o) ==
    \/ o.kind \in {"study", "getSet", "deleteSet"} /\ o.id = SetId /\ o.user # SetOwner
    \/ o.kind \in {"getQuiz", "result", "getResult", "delete"} /\ QuizOwner[o.id] # o.user

\* the request of which r takes a step
Stepping(r) == IF op[r].pc = "idle" THEN op'[r] ELSE op[r]

\* the step of a request o of client r returns, updates, deletes and creates
\* documents of the user of o only, and a result only for a quiz of that user
OwnOnly(r, o) ==
    /\ flashcardSet' # flashcardSet =>
           o.kind \in {"study", "deleteSet"} /\ flashcardSet.userId = o.user
    /\ \A q \in quizDocs \ quizDocs' : QuizOwner[q] = o.user
    /\ \A q \in QuizIds, u \in Users :
           /\ quizResults'[q][u] > quizResults[q][u] => u = o.user /\ QuizOwner[q] = u
           /\ quizResults'[q][u] < quizResults[q][u] => u = o.user
    /\ op'[r].pc = "done" /\ op'[r].doc # NoDoc => op'[r].doc.userId = o.user

\* as the specification words it: a request that names another user's
\* document is answered not-found, and changes nothing
C31_ForeignGetsNotFound ==
    [][\A r \in Reqs : op'[r] # op[r] =>
          LET o == Stepping(r)
          IN  /\ OwnOnly(r, o)
              /\ Foreign(o) =>
                     /\ UNCHANGED << flashcardSet, quizDocs, quizResults >>
                     /\ op'[r].pc = "done" => op'[r].status = 404]_vars

\* C31: a flashcard set, quiz or quiz result is returned, updated or deleted
\* only by requests of its owner, and a quiz result is created only for a
\* quiz of the requesting user; a request that names another user's document
\* changes nothing and is answered not-found, or 400 when it is a study
\* request whose `known` is no boolean, or 500 when its query fails
C31_PerUserIsolation ==
    [][\A r \in Reqs : op'[r] # op[r] =>
          LET o == Stepping(r)
          IN  /\ OwnOnly(r, o)
              /\ Foreign(o) =>
                     /\ UNCHANGED << flashcardSet, quizDocs, quizResults >>
                     /\ op'[r].pc = "done" =>
                            \/ op'[r].status \in {404, 500}
                            \/ op'[r].status = 400 /\ o.kind = "study"]_vars

\* a study request on another user's set was answered not-found, after the
\* owner has studied the set, and the other user has tried to save a result
\* for the owner's quiz as well
C31_Witness ==
    /\ flashcardSet.masteryLevel > 0
    /\ \E r \in Reqs :
           /\ op[r].pc = "done" /\ op[r].kind = "study" /\ op[r].status = 404
           /\ Foreign(op[r])
    /\ \E r \in Reqs :
           /\ op[r].pc = "saving" /\ op[r].kind = "result" /\ ~Foreign(op[r])

(***************************************************************************)
(* Cancellation.                                                           *)
(***************************************************************************)
\* the step issues an external call of request r, or rotates its manager
CallsOrRotates(r) ==
    \/ pc[r] = "sleeping" /\ pc'[r] = "calling"
    \/ pc[r] = "calling" /\ pc'[r] = "calling"
    \/ aiManager'[route[r]].currentIdx # aiManager[route[r]].currentIdx

\* C21: a request whose caller went away while its retry loop was in a
\* backoff sleep makes no further external call and no further rotation
\* after the abort
C21_AbortStopsRetry ==
    [][\A r \in Reqs : aborted[r] = "sleeping" => ~CallsOrRotates(r)]_vars

====
